---- MODULE Spec2Model ----
(***************************************************************************)
(* Model of the contact-form submission pipeline of src/main.py:           *)
(* POST /submit_contact_form validates five form fields, then runs         *)
(* send_email, send_discord_notification (awaited) and save_to_postgresql  *)
(* and returns a fixed acknowledgment.  Requests run as coroutines on one  *)
(* single-threaded event loop; the loop is released only at the awaited    *)
(* webhook POST.  Outcomes of the SMTP session, of the webhook POST and of *)
(* the database commit are chosen by the environment.                      *)
(***************************************************************************)
EXTENDS Integers, Sequences, FiniteSets, TLC

(* number of requests the model lets arrive *)
NumReq == 2

Req == 1..NumReq

None == 0

(* the five Form(...) parameters of submit_contact_form *)
Fields == {"name", "email", "phone", "title", "message"}

(* request bodies: the complete form and every form lacking one field *)
Forms == {Fields} \cup {Fields \ {f} : f \in Fields}

SMTP_SSL_PORT == 465
STARTTLS_PORT == 587
HTTP_NO_CONTENT == 204
HTTP_SERVER_ERROR == 500

(* configured smtp_port values: the two supported ones, the default 0 of   *)
(* Settings, and the plain SMTP port                                       *)
Ports == {SMTP_SSL_PORT, STARTTLS_PORT, 0, 25}

(* how the awaited client.post can resolve: a response with a status, or  *)
(* a transport-level exception                                             *)
PostOutcomes == {HTTP_NO_CONTENT, HTTP_SERVER_ERROR, -1}

TransportError == -1

VARIABLES
    smtp_port,   \* config.smtp_port
    arrived,     \* number of requests received so far
    form,        \* form[r]: the fields present in request r
    hdrOk,       \* hdrOk[r]: name and email of r hold no CR/LF
    pc,          \* pc[r]: "new", "rejected", "running", "await", "done", "failed"
    ip,          \* ip[r]: index of the statement of the handler body r is at
    loop,        \* the request whose coroutine holds the event loop, or None
    events,      \* events[r]: what the handler of r has done, in order
    session,     \* session[r]: "none", "open", "closed"
    rows,        \* the contact_forms table: committed rows, in id order
    response     \* response[r]: "none", "422", "ack", "raised"

vars == <<smtp_port, arrived, form, hdrOk, pc, ip, loop, events, session, rows, response>>

----------------------------------------------------------------------------
(* Pure parts of the program *)

Validate_msgOptional(f) == (Fields \ {"message"}) \subseteq f

(* every parameter is Form(...): required *)
Validate(f) == Fields \subseteq f

(* the statements of the body of submit_contact_form, after the message   *)
(* string is built                                                         *)
HandlerBody_dbFirst ==
    <<"send_email", "save_to_postgresql", "send_discord_notification", "return">>

HandlerBody ==
    <<"send_email", "send_discord_notification", "save_to_postgresql", "return">>

(* send_email: the headers are set before the try block; EmailMessage     *)
(* rejects a header value holding CR or LF with ValueError.  Inside the    *)
(* try block the port selects the session kind; any exception of the      *)
(* session is caught and printed.                                          *)
send_email(port, headersOk, smtpOk) ==
    IF ~headersOk
    THEN [raised |-> TRUE, ev |-> <<"send_email", "send_email_raise">>]
    ELSE IF port = SMTP_SSL_PORT \/ port = STARTTLS_PORT
    THEN IF smtpOk
         THEN [raised |-> FALSE,
               ev |-> <<"send_email", "smtp_connect", "print_email_ok", "send_email_ret">>]
         ELSE [raised |-> FALSE,
               ev |-> <<"send_email", "smtp_connect", "print_email_failed", "send_email_ret">>]
    ELSE [raised |-> FALSE,
          ev |-> <<"send_email", "print_port_hint", "send_email_ret">>]

(* who holds the event loop once client.post is awaited *)
LoopAfterAwait_blocking(r) == r

LoopAfterAwait(r) == None

(* send_discord_notification after client.post resolved: no try block, so *)
(* a transport exception leaves the function; a response is printed       *)
(* according to its status                                                 *)
discord_resolved(outcome) ==
    IF outcome = TransportError
    THEN [raised |-> TRUE, ev |-> <<"post_transport_error", "discord_raise">>]
    ELSE IF outcome = HTTP_NO_CONTENT
    THEN [raised |-> FALSE,
          ev |-> <<"post_response_204", "print_discord_ok", "discord_ret">>]
    ELSE [raised |-> FALSE,
          ev |-> <<"post_response_other", "print_discord_failed", "discord_ret">>]

(* save_to_postgresql: SessionLocal(), add, commit, close in a straight   *)
(* line; an exception of commit skips close and leaves the function       *)
save_to_postgresql_swallow(commitOk) ==
    IF commitOk
    THEN [raised |-> FALSE, stored |-> TRUE, session |-> "closed",
          ev |-> <<"session_open", "insert", "commit_ok", "session_close", "save_ret">>]
    ELSE [raised |-> FALSE, stored |-> FALSE, session |-> "closed",
          ev |-> <<"session_open", "insert", "commit_failed", "session_close", "save_ret">>]

save_to_postgresql(commitOk) ==
    IF commitOk
    THEN [raised |-> FALSE, stored |-> TRUE, session |-> "closed",
          ev |-> <<"session_open", "insert", "commit_ok", "session_close", "save_ret">>]
    ELSE [raised |-> TRUE, stored |-> FALSE, session |-> "open",
          ev |-> <<"session_open", "insert", "commit_failed", "save_raise">>]

----------------------------------------------------------------------------
(* State machine *)

Init ==
    /\ smtp_port \in Ports
    /\ arrived = 0
    /\ form = [r \in Req |-> {}]
    /\ hdrOk = [r \in Req |-> TRUE]
    /\ pc = [r \in Req |-> "new"]
    /\ ip = [r \in Req |-> 0]
    /\ loop = None
    /\ events = [r \in Req |-> <<>>]
    /\ session = [r \in Req |-> "none"]
    /\ rows = <<>>
    /\ response = [r \in Req |-> "none"]

(* an exception leaves submit_contact_form: the coroutine ends *)
Raise(r) ==
    /\ pc' = [pc EXCEPT ![r] = "failed"]
    /\ response' = [response EXCEPT ![r] = "raised"]
    /\ loop' = None
    /\ ip' = ip

(* the current statement returned: go to the next one *)
Advance(r) ==
    /\ pc' = [pc EXCEPT ![r] = "running"]
    /\ ip' = [ip EXCEPT ![r] = ip[r] + 1]
    /\ loop' = r
    /\ response' = response

(* A request is received while the loop is free.  The framework checks    *)
(* the form against the signature; a request lacking a field is answered  *)
(* with a validation failure and the handler body is not entered.         *)
Receive(r) ==
    /\ loop = None
    /\ pc[r] = "new"
    /\ r = arrived + 1
    /\ arrived' = r
    /\ \E f \in Forms, h \in BOOLEAN :
        /\ form' = [form EXCEPT ![r] = f]
        /\ IF Validate(f)
           THEN /\ hdrOk' = [hdrOk EXCEPT ![r] = h]
                /\ pc' = [pc EXCEPT ![r] = "running"]
                /\ ip' = [ip EXCEPT ![r] = 1]
                /\ loop' = r
                /\ response' = response
           ELSE /\ hdrOk' = hdrOk
                /\ pc' = [pc EXCEPT ![r] = "rejected"]
                /\ response' = [response EXCEPT ![r] = "422"]
                /\ UNCHANGED <<ip, loop>>
    /\ UNCHANGED <<smtp_port, events, session, rows>>

AtStatement(r, s) ==
    /\ loop = r
    /\ pc[r] = "running"
    /\ ip[r] \in 1..Len(HandlerBody)
    /\ HandlerBody[ip[r]] = s

(* send_email(config, send_message, name, email) *)
CallSendEmail(r) ==
    /\ AtStatement(r, "send_email")
    /\ \E smtpOk \in BOOLEAN :
        LET res == send_email(smtp_port, hdrOk[r], smtpOk) IN
        /\ events' = [events EXCEPT ![r] = events[r] \o res.ev]
        /\ IF res.raised THEN Raise(r) ELSE Advance(r)
    /\ UNCHANGED <<smtp_port, arrived, form, hdrOk, session, rows>>

(* await send_discord_notification(...): up to the awaited client.post,   *)
(* where the coroutine is suspended                                        *)
CallDiscord(r) ==
    /\ AtStatement(r, "send_discord_notification")
    /\ events' = [events EXCEPT ![r] = events[r] \o <<"post">>]
    /\ pc' = [pc EXCEPT ![r] = "await"]
    /\ loop' = LoopAfterAwait(r)
    /\ UNCHANGED <<smtp_port, arrived, form, hdrOk, ip, session, rows, response>>

(* the POST resolved and the loop resumes the suspended coroutine *)
PostResolved(r) ==
    /\ loop = None
    /\ pc[r] = "await"
    /\ \E outcome \in PostOutcomes :
        LET res == discord_resolved(outcome) IN
        /\ events' = [events EXCEPT ![r] = events[r] \o res.ev]
        /\ IF res.raised THEN Raise(r) ELSE Advance(r)
    /\ UNCHANGED <<smtp_port, arrived, form, hdrOk, session, rows>>

(* save_to_postgresql(name, email, phone, title, message) *)
CallSave(r) ==
    /\ AtStatement(r, "save_to_postgresql")
    /\ \E commitOk \in BOOLEAN :
        LET res == save_to_postgresql(commitOk) IN
        /\ events' = [events EXCEPT ![r] = events[r] \o res.ev]
        /\ session' = [session EXCEPT ![r] = res.session]
        /\ rows' = IF res.stored THEN Append(rows, r) ELSE rows
        /\ IF res.raised THEN Raise(r) ELSE Advance(r)
    /\ UNCHANGED <<smtp_port, arrived, form, hdrOk>>

(* return {"message": "Contact form submitted successfully"} *)
Return(r) ==
    /\ AtStatement(r, "return")
    /\ pc' = [pc EXCEPT ![r] = "done"]
    /\ response' = [response EXCEPT ![r] = "ack"]
    /\ loop' = None
    /\ UNCHANGED <<smtp_port, arrived, form, hdrOk, ip, events, session, rows>>

Step(r) ==
    \/ Receive(r)
    \/ CallSendEmail(r)
    \/ CallDiscord(r)
    \/ PostResolved(r)
    \/ CallSave(r)
    \/ Return(r)

Next ==
    \/ \E r \in Req : Receive(r)
    \/ \E r \in Req : CallSendEmail(r)
    \/ \E r \in Req : CallDiscord(r)
    \/ \E r \in Req : PostResolved(r)
    \/ \E r \in Req : CallSave(r)
    \/ \E r \in Req : Return(r)

Spec == Init /\ [][Next]_vars

----------------------------------------------------------------------------
(* Helpers of the properties *)

Count(s, e) == Cardinality({i \in 1..Len(s) : s[i] = e})

Has(s, e) == \E i \in 1..Len(s) : s[i] = e

Before(s, a, b) ==
    \A i \in 1..Len(s) : s[i] = b => \E j \in 1..(i - 1) : s[j] = a

Finished(r) == pc[r] \in {"rejected", "done", "failed"}

Accepted(r) == pc[r] # "new" /\ Fields \subseteq form[r]

InRows(r) == \E i \in 1..Len(rows) : rows[i] = r

TypeOK ==
    /\ smtp_port \in Ports
    /\ arrived \in 0..NumReq
    /\ form \in [Req -> Forms \cup {{}}]
    /\ hdrOk \in [Req -> BOOLEAN]
    /\ pc \in [Req -> {"new", "rejected", "running", "await", "done", "failed"}]
    /\ ip \in [Req -> 0..Len(HandlerBody)]
    /\ loop \in Req \cup {None}
    /\ session \in [Req -> {"none", "open", "closed"}]
    /\ response \in [Req -> {"none", "422", "ack", "raised"}]

----------------------------------------------------------------------------
(* Properties *)

(* C1: every request with all five fields present, once its handler has   *)
(* ended, has been answered with the acknowledgment, whatever the sinks   *)
(* did.                                                                    *)
C1_AlwaysAcknowledged ==
    \A r \in Req : (Accepted(r) /\ Finished(r)) => response[r] = "ack"

(* C2: every accepted request whose handler has ended made exactly one    *)
(* call of send_email, exactly one webhook POST and exactly one insert,   *)
(* and no request ever makes any of them twice.                           *)
C2_ExactlyOneAttemptEach ==
    \A r \in Req :
        /\ Count(events[r], "send_email") <= 1
        /\ Count(events[r], "post") <= 1
        /\ Count(events[r], "insert") <= 1
        /\ (Accepted(r) /\ Finished(r)) =>
            /\ Count(events[r], "send_email") = 1
            /\ Count(events[r], "post") = 1
            /\ Count(events[r], "insert") = 1

(* C3: a received request lacking one of the five fields is answered with *)
(* a validation failure and its handler does nothing: no email, no POST,  *)
(* no insert, no session.                                                  *)
C3_MissingFieldReachesNoSink ==
    \A r \in Req :
        (pc[r] # "new" /\ ~(Fields \subseteq form[r])) =>
            /\ response[r] = "422"
            /\ pc[r] = "rejected"
            /\ events[r] = <<>>
            /\ session[r] = "none"
            /\ ~InRows(r)

C3_Witness ==
    \E r \in Req : form[r] = Fields \ {"message"} /\ response[r] = "422"

(* C4: a request whose commit failed does not end with an exception out   *)
(* of submit_contact_form, and its email call and webhook POST were made. *)
C4_CommitFailureIsolated ==
    \A r \in Req :
        Has(events[r], "commit_failed") =>
            /\ response[r] # "raised"
            /\ pc[r] # "failed"
            /\ Count(events[r], "send_email") = 1
            /\ Count(events[r], "post") = 1

(* C5: a request whose webhook answered with a status other than 204 has  *)
(* send_discord_notification return normally, and once its handler has    *)
(* ended no exception left submit_contact_form and the insert was made.   *)
C5_Non204Isolated ==
    \A r \in Req :
        Has(events[r], "post_response_other") =>
            /\ Has(events[r], "discord_ret")
            /\ ~Has(events[r], "discord_raise")
            /\ response[r] # "raised"
            /\ Finished(r) => Count(events[r], "insert") = 1

(* C6: with a configured port other than 465 and 587, a request that      *)
(* called send_email opened no SMTP connection, printed the port message  *)
(* and neither the success nor the failure message, and send_email        *)
(* returned without raising.                                               *)
C6_UnsupportedPortNoAttempt ==
    (smtp_port # SMTP_SSL_PORT /\ smtp_port # STARTTLS_PORT) =>
        \A r \in Req :
            Has(events[r], "send_email") =>
                /\ ~Has(events[r], "smtp_connect")
                /\ Has(events[r], "print_port_hint")
                /\ ~Has(events[r], "print_email_ok")
                /\ ~Has(events[r], "print_email_failed")
                /\ Has(events[r], "send_email_ret")
                /\ ~Has(events[r], "send_email_raise")

(* C7: no request whose handler has ended still has its session open.     *)
C7_SessionReleased ==
    \A r \in Req : Finished(r) => session[r] # "open"

(* C8: a request suspended at the awaited POST does not hold the event    *)
(* loop, and every other unfinished request whose turn it is can take its *)
(* step; and a request only ever takes a step while every other request   *)
(* is outside its handler or suspended at the awaited POST.               *)
C8_SuspendedFree ==
    \A r \in Req :
        pc[r] = "await" =>
            /\ loop # r
            /\ \A q \in Req \ {r} :
                   \/ Finished(q)
                   \/ (pc[q] = "new" /\ (q # arrived + 1 \/ loop # None))
                   \/ (pc[q] = "await" /\ loop # None)
                   \/ ENABLED Step(q)

C8_OnlyAtAwait ==
    \A q \in Req :
        (pc'[q] # pc[q] \/ ip'[q] # ip[q] \/ events'[q] # events[q]) =>
            \A r \in Req \ {q} :
                pc[r] \in {"new", "rejected", "done", "failed", "await"}

C8_AwaitInterleaves == [](C8_SuspendedFree) /\ [][C8_OnlyAtAwait]_vars

C8_Witness ==
    \E r \in Req, q \in Req :
        /\ r # q
        /\ pc[r] = "await"
        /\ Has(events[q], "insert")
        /\ response[q] = "ack"

(* C9: within one request the webhook POST starts only after send_email   *)
(* returned, and the insert starts only after the POST resolved with      *)
(* send_discord_notification returned.                                     *)
C9_SinkOrder ==
    \A r \in Req :
        /\ Before(events[r], "send_email_ret", "post")
        /\ Before(events[r], "discord_ret", "session_open")
        /\ Before(events[r], "discord_ret", "insert")
        /\ Before(events[r], "send_email", "post")
        /\ Before(events[r], "post", "insert")

C9_Witness ==
    \E r \in Req :
        /\ Has(events[r], "send_email_ret")
        /\ Has(events[r], "discord_ret")
        /\ Has(events[r], "insert")

(* C10: a request answered with the acknowledgment has had an HTTP        *)
(* response to its webhook POST and has its row committed in the table.   *)
C10_AckImpliesStored ==
    \A r \in Req :
        response[r] = "ack" =>
            /\ (Has(events[r], "post_response_204") \/ Has(events[r], "post_response_other"))
            /\ ~Has(events[r], "post_transport_error")
            /\ Has(events[r], "commit_ok")
            /\ InRows(r)

C10_Witness ==
    \E r \in Req :
        /\ response[r] = "ack"
        /\ Has(events[r], "post_response_other")
        /\ InRows(r)

====
